---- MODULE Spec2Model ----
(***************************************************************************)
(* Pipeline state machine of team-cutroom (lib/pipeline/manager.ts), the   *)
(* batch-claim route, and the store rows they read and write.              *)
(*                                                                         *)
(* One pipeline with its seven stage rows and its Attribution rows is      *)
(* modelled.  Spec runs every handler to completion before the next one    *)
(* starts (sequential callers).  SpecConc splits every handler at its      *)
(* awaits: each store read and each store write is one step, and two       *)
(* callers interleave their steps.                                         *)
(***************************************************************************)
EXTENDS Integers, Sequences, FiniteSets, Bags, TLC

VARIABLES
    pstatus,        \* Pipeline.status
    currentStage,   \* Pipeline.currentStage
    stages,         \* Stage rows of the pipeline, keyed by stage name
    attributions,   \* bag of Attribution rows
    response,       \* what the claim call that returned last reported: "ok" or
                    \* the error message, one entry per requested stage
    granted,        \* per stage: the callers a claim call returned the stage to
    ops,            \* number of handler invocations so far
    pc,             \* SpecConc: per caller, the await its call is suspended at
    arg,            \* SpecConc: per caller, the locals of its call
    run,            \* SpecHandlers: the call of a stage handler's execute
    calc,           \* SpecPure: the last call of a pure function, with its result
    rate,           \* SpecRate: the rate limiter's map, the clock and the last call
    stamps          \* SpecClaim: claimedAt and startedAt of each stage row

vars == <<pstatus, currentStage, stages, attributions, response, granted, ops, pc, arg, run, calc, rate, stamps>>
store == <<pstatus, currentStage, stages, attributions>>

-----------------------------------------------------------------------------
(* Bounds *)

MaxOps == 3         \* handler invocations explored in one behaviour
MaxBatch == 2       \* longest stageIds list handed to the batch-claim route
MaxSections == 2    \* longest script.body handed to the VISUAL handler
MaxRateCalls == 5   \* rate limiter calls and clock advances in one behaviour
MaxProfileRows == 2 \* most attribution rows of the agent in a profile request
MaxAttrs == 3       \* longest attribution list handed to calculatePayouts
MantissaBits == 9   \* significand width of the modelled Number arithmetic

NULL == "null"
Agents == {"agent-1", "agent-2"}
Messages == {"Unknown error"}

-----------------------------------------------------------------------------
(* Static tables and ordering helpers *)

STAGE_ORDER ==
    <<"RESEARCH", "SCRIPT", "VOICE", "MUSIC", "VISUAL", "EDITOR", "PUBLISH">>

StageNames == {STAGE_ORDER[i] : i \in 1..Len(STAGE_ORDER)}

STAGE_WEIGHTS ==
    [n \in StageNames |->
        CASE n = "RESEARCH" -> 10
          [] n = "SCRIPT"   -> 25
          [] n = "VOICE"    -> 20
          [] n = "MUSIC"    -> 10
          [] n = "VISUAL"   -> 15
          [] n = "EDITOR"   -> 15
          [] n = "PUBLISH"  -> 5]

\* Array.prototype.indexOf on STAGE_ORDER: 0-based position, -1 when absent
indexOf(name) ==
    IF \E i \in 1..Len(STAGE_ORDER) : STAGE_ORDER[i] = name
    THEN (CHOOSE i \in 1..Len(STAGE_ORDER) :
             STAGE_ORDER[i] = name /\ \A j \in 1..(i-1) : STAGE_ORDER[j] # name) - 1
    ELSE -1

\* STAGE_ORDER[k] with a 0-based index
at(k) == STAGE_ORDER[k + 1]

\* getNextStageName without the idx === -1 test
getNextStageNameNoSentinel(current) ==
    LET idx == indexOf(current) IN
    IF idx = Len(STAGE_ORDER) - 1 THEN NULL ELSE at(idx + 1)

getNextStageName(current) ==
    LET idx == indexOf(current) IN
    IF idx = -1 \/ idx = Len(STAGE_ORDER) - 1 THEN NULL ELSE at(idx + 1)

getPreviousStageName(current) ==
    LET idx == indexOf(current) IN
    IF idx <= 0 THEN NULL ELSE at(idx - 1)

getStageIndex(stageName) == indexOf(stageName)

-----------------------------------------------------------------------------
(* Store rows *)

PipelineStatuses == {"DRAFT", "RUNNING", "COMPLETE", "FAILED"}
StageStatuses == {"PENDING", "CLAIMED", "RUNNING", "COMPLETE", "FAILED", "SKIPPED"}

\* createPipeline without the last entry of STAGE_ORDER
createPipelineSixStages ==
    /\ pstatus = "DRAFT"
    /\ currentStage = "RESEARCH"
    /\ stages = [n \in StageNames \ {STAGE_ORDER[Len(STAGE_ORDER)]} |->
                    [status |-> "PENDING", agentId |-> NULL, error |-> NULL]]

\* createPipeline: one DRAFT pipeline pointing at RESEARCH, seven PENDING stages
createPipeline ==
    /\ pstatus = "DRAFT"
    /\ currentStage = "RESEARCH"
    /\ stages = [n \in StageNames |->
                    [status |-> "PENDING", agentId |-> NULL, error |-> NULL]]

\* locals of a suspended call: the stage it works on, the agentId it read,
\* the ids a batch still has to process and the results it has pushed
NoArgs == [stage |-> NULL, agentId |-> NULL, ids |-> <<>>, results |-> <<>>]

\* no pure function called yet
NoCalc == [op |-> NULL]
NoRate == [op |-> NULL]

\* the timestamps createPipeline leaves in the stage rows: none
NoStamps == [n \in StageNames |-> [claimedAt |-> NULL, startedAt |-> NULL]]

\* no handler call in progress: the handler, where its call stands, the
\* context it was given (input, dryRun, style, number of script sections),
\* whether the API key is in the environment, the outcome of each external
\* call (NULL where none was made), the clip pushed for each section, the
\* generator that produced the output, the number of external calls made
\* and the StageResult returned
NoRun ==
    [handler |-> NULL, pc |-> "idle", input |-> NULL, dryRun |-> FALSE,
     style |-> NULL, sections |-> 0, apiKey |-> FALSE, outcomes |-> <<>>,
     clips |-> <<>>, generator |-> NULL, calls |-> 0, result |-> NULL]

Init ==
    /\ createPipeline
    /\ attributions = EmptyBag
    /\ response = <<>>
    /\ granted = [n \in StageNames |-> {}]
    /\ ops = 0
    /\ pc = [a \in Agents |-> "idle"]
    /\ arg = [a \in Agents |-> NoArgs]
    /\ run = NoRun
    /\ calc = NoCalc
    /\ rate = NoRate
    /\ stamps = NoStamps

Idle == \A a \in Agents : pc[a] = "idle"

-----------------------------------------------------------------------------
(* manager.ts: the store writes of each handler *)

\* startPipeline that also puts the pointer back on the first stage
startPipelineResetsPointer ==
    /\ pstatus' = "RUNNING"
    /\ currentStage' = STAGE_ORDER[1]
    /\ response' = <<>>
    /\ UNCHANGED <<stages, attributions, granted>>

\* startPipeline: unconditional update of the status column
startPipeline ==
    /\ pstatus' = "RUNNING"
    /\ response' = <<>>
    /\ UNCHANGED <<currentStage, stages, attributions, granted>>

\* claimStage, the precondition checks in the order of the code;
\* "ok" when none of them throws
claimCheckPipeline == IF pstatus # "RUNNING" THEN "Pipeline not in running state" ELSE "ok"

claimCheckStage(s) ==
    IF s \notin DOMAIN stages THEN "Stage not found"
    ELSE IF stages[s].status # "PENDING" THEN "Stage not available for claiming"
    ELSE "ok"

\* claimCheckPrev with the SKIPPED alternative of the predecessor test left out
claimCheckPrevCompleteOnly(s) ==
    LET stageIdx == indexOf(s) IN
    IF stageIdx > 0
    THEN LET prevStageName == at(stageIdx - 1) IN
         IF prevStageName \notin DOMAIN stages \/ stages[prevStageName].status # "COMPLETE"
         THEN "Previous stage not complete"
         ELSE "ok"
    ELSE "ok"

claimCheckPrev(s) ==
    LET stageIdx == indexOf(s) IN
    IF stageIdx > 0
    THEN LET prevStageName == at(stageIdx - 1) IN
         IF \/ prevStageName \notin DOMAIN stages
            \/ (stages[prevStageName].status # "COMPLETE" /\ stages[prevStageName].status # "SKIPPED")
         THEN "Previous stage not complete"
         ELSE "ok"
    ELSE "ok"

\* claimCheck with the stage looked up before the pipeline
claimCheckStageFirst(s) ==
    IF claimCheckStage(s) # "ok" THEN claimCheckStage(s)
    ELSE IF claimCheckPipeline # "ok" THEN claimCheckPipeline
    ELSE claimCheckPrev(s)

claimCheck(s) ==
    IF claimCheckPipeline # "ok" THEN claimCheckPipeline
    ELSE IF claimCheckStage(s) # "ok" THEN claimCheckStage(s)
    ELSE claimCheckPrev(s)

\* a claimStage update that records the agent and leaves the status column
claimWriteKeepsStatus(s, a) ==
    /\ stages' = [stages EXCEPT ![s].agentId = a]
    /\ response' = <<"ok">>
    /\ granted' = [granted EXCEPT ![s] = @ \cup {a}]

\* the final prisma.stage.update of claimStage, which returns the CLAIMED row
claimWrite(s, a) ==
    /\ stages' = [stages EXCEPT ![s] = [@ EXCEPT !.status = "CLAIMED", !.agentId = a]]
    /\ response' = <<"ok">>
    /\ granted' = [granted EXCEPT ![s] = @ \cup {a}]

\* a claimStage call that throws
claimThrow(s, error) ==
    /\ response' = <<error>>
    /\ UNCHANGED <<stages, granted>>

\* claimStage run to completion
claimStage(s, a) ==
    /\ IF claimCheck(s) = "ok"
       THEN claimWrite(s, a)
       ELSE claimThrow(s, claimCheck(s))
    /\ UNCHANGED <<pstatus, currentStage, attributions>>

\* startStage: unconditional update of the stage's status
startStage(s) ==
    /\ stages' = [stages EXCEPT ![s].status = "RUNNING"]
    /\ response' = <<>>
    /\ UNCHANGED <<pstatus, currentStage, attributions, granted>>

\* recordAttribution: one more Attribution row
recordAttribution(rows, s, a) ==
    rows (+) SetToBag({[stageName |-> s, agentId |-> a, percentage |-> STAGE_WEIGHTS[s]]})

\* completeStage, first write: the stage row
completeStageRow(s) ==
    stages' = [stages EXCEPT ![s].status = "COMPLETE"]

\* completeStage, second write: the Attribution row when the updated stage
\* row carries an agent
completeAttribution(s, agentId) ==
    attributions' = IF agentId # NULL
                    THEN recordAttribution(attributions, s, agentId)
                    ELSE attributions

\* advancePipeline whose last-stage branch also clears the pointer
advancePipelineClearsPointer(s) ==
    LET nextStageName == getNextStageName(s) IN
    IF nextStageName = NULL
    THEN pstatus' = "COMPLETE" /\ currentStage' = STAGE_ORDER[1]
    ELSE currentStage' = nextStageName /\ UNCHANGED pstatus

\* completeStage / skipStage, last write: the pipeline row
advancePipeline(s) ==
    LET nextStageName == getNextStageName(s) IN
    IF nextStageName = NULL
    THEN pstatus' = "COMPLETE" /\ UNCHANGED currentStage
    ELSE currentStage' = nextStageName /\ UNCHANGED pstatus

completeStage(s) ==
    /\ completeStageRow(s)
    /\ completeAttribution(s, stages'[s].agentId)
    /\ advancePipeline(s)
    /\ response' = <<>>
    /\ UNCHANGED granted

\* failStage, first write: the stage row
failStageRow(s, error) ==
    stages' = [stages EXCEPT ![s] = [@ EXCEPT !.status = "FAILED", !.error = error]]

\* failPipeline guarded by the pipeline being RUNNING
failPipelineIfRunning ==
    pstatus' = (IF pstatus = "RUNNING" THEN "FAILED" ELSE pstatus) /\ UNCHANGED currentStage

\* failStage, second write: the pipeline row
failPipeline ==
    pstatus' = "FAILED" /\ UNCHANGED currentStage

failStage(s, error) ==
    /\ failStageRow(s, error)
    /\ failPipeline
    /\ response' = <<>>
    /\ UNCHANGED <<attributions, granted>>

\* skipStageRow writing PENDING in place of SKIPPED
skipStageRowPending(s) ==
    stages' = [stages EXCEPT ![s].status = "PENDING"]

\* skipStage, first write: the stage row
skipStageRow(s) ==
    stages' = [stages EXCEPT ![s].status = "SKIPPED"]

skipStage(s) ==
    /\ skipStageRow(s)
    /\ advancePipeline(s)
    /\ response' = <<>>
    /\ UNCHANGED <<attributions, granted>>

\* pipeline.stages ordered by createdAt asc: the rows in the order the nested
\* create of createPipeline made them
stagesByCreatedAt == STAGE_ORDER

\* findMany without its where clause: the pipeline whatever its status
runningPipelinesAnyStatus == <<stagesByCreatedAt>>

\* prisma.pipeline.findMany({ where: { status: 'RUNNING' } }), each pipeline
\* given by its ordered stage rows
runningPipelines ==
    IF pstatus = "RUNNING" THEN <<stagesByCreatedAt>> ELSE <<>>

\* the previous-row test without SKIPPED
previousRowDoneCompleteOnly(rows, i) ==
    i = 1 \/ stages[rows[i - 1]].status = "COMPLETE"

\* i === 0 || ['COMPLETE', 'SKIPPED'].includes(pipeline.stages[i - 1].status)
previousRowDone(rows, i) ==
    i = 1 \/ stages[rows[i - 1]].status \in {"COMPLETE", "SKIPPED"}

\* the inner for loop from row i on; stageName = NULL is the omitted filter
RECURSIVE scanStages(_, _, _, _)
scanStages(rows, i, stageName, available) ==
    IF i > Len(rows) THEN available
    ELSE IF stages[rows[i]].status # "PENDING"
         THEN scanStages(rows, i + 1, stageName, available)
    ELSE IF stageName # NULL /\ rows[i] # stageName
         THEN scanStages(rows, i + 1, stageName, available)
    ELSE IF previousRowDone(rows, i)
         THEN scanStages(rows, i + 1, stageName, Append(available, rows[i]))
    ELSE scanStages(rows, i + 1, stageName, available)

\* the outer for loop from pipeline p on
RECURSIVE scanPipelines(_, _, _, _)
scanPipelines(pipelines, p, stageName, available) ==
    IF p > Len(pipelines) THEN available
    ELSE scanPipelines(pipelines, p + 1, stageName,
                       scanStages(pipelines[p], 1, stageName, available))

\* the names of the stages returned, in the order returned
getAvailableStages(stageName) ==
    scanPipelines(runningPipelines, 1, stageName, <<>>)

-----------------------------------------------------------------------------
(* app/api/stages/batch-claim/route.ts *)

\* ids a batch request may name: the seven stage rows and one unknown id
StageIds == StageNames \cup {"no-such-stage"}

\* request bodies: every single id; and, for each longer length, the first
\* stages in order, the unknown id followed by the first stages, and the first
\* stage repeated
BatchInputs ==
    {<<id>> : id \in StageIds}
    \cup UNION {{ SubSeq(STAGE_ORDER, 1, n),
                  <<"no-such-stage">> \o SubSeq(STAGE_ORDER, 1, n - 1),
                  [k \in 1..n |-> STAGE_ORDER[1]] } : n \in 2..MaxBatch}

\* String.prototype.toLowerCase on a stage status
toLowerCase(status) ==
    CASE status = "PENDING"  -> "pending"
      [] status = "CLAIMED"  -> "claimed"
      [] status = "RUNNING"  -> "running"
      [] status = "COMPLETE" -> "complete"
      [] status = "FAILED"   -> "failed"
      [] status = "SKIPPED"  -> "skipped"

\* the checks of one loop iteration against the rows st and pipeline status ps
batchCheck(st, ps, id) ==
    IF id \notin DOMAIN st THEN "Stage not found"
    ELSE IF st[id].status # "PENDING" THEN "Stage already " \o toLowerCase(st[id].status)
    ELSE IF ps = "COMPLETE" \/ ps = "FAILED" THEN "Pipeline no longer active"
    ELSE "ok"

\* an update that reaches no row
batchWriteLost(st, id, a) == st

\* the prisma.stage.update of one loop iteration
batchWrite(st, id, a) ==
    [st EXCEPT ![id] = [@ EXCEPT !.status = "CLAIMED", !.agentId = a]]

\* the for loop of POST over stageIds, run to completion: the rows, the
\* results pushed, and the callers each stage was returned to
RECURSIVE batchLoop(_, _, _, _, _)
batchLoop(ids, a, st, res, gr) ==
    IF ids = <<>>
    THEN [stages |-> st, results |-> res, granted |-> gr]
    ELSE LET id == Head(ids)
             r == batchCheck(st, pstatus, id)
         IN IF r = "ok"
            THEN batchLoop(Tail(ids), a, batchWrite(st, id, a),
                           Append(res, r),
                           [gr EXCEPT ![id] = @ \cup {a}])
            ELSE batchLoop(Tail(ids), a, st, Append(res, r), gr)

\* the summary of the response: stageIds.length and the numbers of results
\* with and without success
summary(ids, results) ==
    [requested |-> Len(ids),
     claimed |-> Cardinality({i \in 1..Len(results) : results[i] = "ok"}),
     failed |-> Cardinality({i \in 1..Len(results) : results[i] # "ok"})]

batchClaim(ids, a) ==
    /\ \E done \in {batchLoop(ids, a, stages, <<>>, granted)} :
          /\ stages' = done.stages
          /\ response' = done.results
          /\ granted' = done.granted
    /\ UNCHANGED <<pstatus, currentStage, attributions>>

-----------------------------------------------------------------------------
(* lib/stages/index.ts and app/api/stages/[id]/execute/route.ts *)

\* STAGE_HANDLERS: the registered handler of each stage name
STAGE_HANDLERS ==
    [n \in {"RESEARCH", "SCRIPT", "VOICE", "VISUAL", "EDITOR"} |->
        CASE n = "RESEARCH" -> "researchStage"
          [] n = "SCRIPT"   -> "scriptStage"
          [] n = "VOICE"    -> "voiceStage"
          [] n = "VISUAL"   -> "visualStage"
          [] n = "EDITOR"   -> "editorStage"]

\* getStageHandler: the handler, or NULL for undefined
getStageHandler(stageName) ==
    IF stageName \in DOMAIN STAGE_HANDLERS THEN STAGE_HANDLERS[stageName] ELSE NULL

\* what a registered handler does with a request: validate rejects the
\* input, execute returns success false, or execute returns success true
HandlerOutcomes == {"invalid", "failed", "success"}

\* the message of the TypeError raised by a property read on undefined
TypeErrorMessage == "Cannot read properties of undefined (reading 'validate')"

\* the checks of the route before anything is written; "ok" when all pass
executeCheck(id, agentId) ==
    IF agentId = NULL THEN "agentId is required"
    ELSE IF id \notin DOMAIN stages THEN "Stage not found"
    ELSE IF stages[id].agentId # agentId THEN "Stage not claimed by this agent"
    ELSE IF stages[id].status # "CLAIMED"
         THEN "Stage is " \o stages[id].status \o ", not CLAIMED"
    ELSE "ok"

\* the rows after startStage(stageId)
executeStarted(id) == [stages EXCEPT ![id].status = "RUNNING"]

\* handler.validate on an undefined handler: the TypeError is caught by the
\* outer catch after startStage has written
executeNoHandler(id) ==
    /\ stages' = executeStarted(id)
    /\ response' = <<TypeErrorMessage>>
    /\ UNCHANGED <<pstatus, currentStage, attributions>>

\* failStage on the started stage, with the message the route passes
executeFail(id, error, reply) ==
    /\ stages' = [executeStarted(id) EXCEPT ![id] = [@ EXCEPT !.status = "FAILED", !.error = error]]
    /\ failPipeline
    /\ response' = <<reply>>
    /\ UNCHANGED attributions

\* a success reply without the call of completeStage
executeCompleteSkipped(id) ==
    /\ stages' = executeStarted(id)
    /\ response' = <<"success">>
    /\ UNCHANGED <<pstatus, currentStage, attributions>>

\* completeStage on the started stage
executeComplete(id) ==
    /\ stages' = [executeStarted(id) EXCEPT ![id].status = "COMPLETE"]
    /\ completeAttribution(id, stages'[id].agentId)
    /\ advancePipeline(id)
    /\ response' = <<"success">>

\* POST /api/stages/[id]/execute run to completion
execute(id, agentId, outcome) ==
    /\ IF executeCheck(id, agentId) # "ok"
       THEN response' = <<executeCheck(id, agentId)>> /\ UNCHANGED store
       ELSE IF getStageHandler(id) = NULL
            THEN executeNoHandler(id)
       ELSE CASE outcome = "invalid" -> executeFail(id, "Validation failed", "Validation failed")
              [] outcome = "failed"  -> \E e \in Messages : executeFail(id, e, e)
              [] outcome = "success" -> executeComplete(id)
    /\ UNCHANGED granted

-----------------------------------------------------------------------------
(* Spec: sequential callers, one handler per step *)

Step == ops < MaxOps /\ Idle /\ ops' = ops + 1 /\ UNCHANGED <<pc, arg, run, calc, rate, stamps>>

DoStartPipeline == Step /\ startPipeline
DoClaimStage == Step /\ \E s \in StageNames, a \in Agents : claimStage(s, a)
DoBatchClaim == Step /\ \E ids \in BatchInputs, a \in Agents : batchClaim(ids, a)
DoStartStage == Step /\ \E s \in StageNames : startStage(s)
DoCompleteStage == Step /\ \E s \in StageNames : completeStage(s)
DoFailStage == Step /\ \E s \in StageNames, e \in Messages : failStage(s, e)
DoSkipStage == Step /\ \E s \in StageNames : skipStage(s)

Next ==
    \/ DoStartPipeline
    \/ DoClaimStage
    \/ DoBatchClaim
    \/ DoStartStage
    \/ DoCompleteStage
    \/ DoFailStage
    \/ DoSkipStage

Spec == Init /\ [][Next]_vars

-----------------------------------------------------------------------------
(* SpecConc: every handler split at its awaits; callers interleave *)

\* the stages concurrent callers name: the first, its successor and the last
ConcStages == {STAGE_ORDER[1], STAGE_ORDER[2], STAGE_ORDER[Len(STAGE_ORDER)]}

ConcBatchInputs == {ids \in BatchInputs : \A i \in 1..Len(ids) : ids[i] \in ConcStages}

\* caller c starts a handler
Begin(c) == ops < MaxOps /\ pc[c] = "idle" /\ ops' = ops + 1 /\ UNCHANGED <<run, calc, rate, stamps>>

\* caller c resumes at the await named at
At(c, at_) == pc[c] = at_ /\ UNCHANGED <<ops, run, calc, rate, stamps>>

Goto(c, to, locals) ==
    /\ pc' = [pc EXCEPT ![c] = to]
    /\ arg' = [arg EXCEPT ![c] = locals]

Return(c) == Goto(c, "idle", NoArgs)

\* startPipeline and startStage are one store write each
CStartPipeline == \E c \in Agents : Begin(c) /\ startPipeline /\ Return(c)

CStartStage == \E c \in Agents, s \in ConcStages : Begin(c) /\ startStage(s) /\ Return(c)

\* claimStage: pipeline.findUnique and the check that follows it
ClaimFindPipeline ==
    \E c \in Agents, s \in ConcStages :
        /\ Begin(c)
        /\ IF claimCheckPipeline = "ok"
           THEN Goto(c, "claimFindStage", [NoArgs EXCEPT !.stage = s])
                /\ UNCHANGED <<response, granted>>
           ELSE Return(c) /\ response' = <<claimCheckPipeline>>
                /\ UNCHANGED granted
        /\ UNCHANGED store

\* claimStage: stage.findUnique and the checks that follow it
ClaimFindStage ==
    \E c \in Agents :
        /\ At(c, "claimFindStage")
        /\ LET s == arg[c].stage IN
           IF claimCheckStage(s) = "ok"
           THEN Goto(c, IF indexOf(s) > 0 THEN "claimFindPrev" ELSE "claimUpdate", arg[c])
                /\ UNCHANGED <<response, granted>>
           ELSE Return(c) /\ response' = <<claimCheckStage(s)>>
                /\ UNCHANGED granted
        /\ UNCHANGED store

\* claimStage: findUnique of the previous stage and the check that follows it
ClaimFindPrev ==
    \E c \in Agents :
        /\ At(c, "claimFindPrev")
        /\ LET s == arg[c].stage IN
           IF claimCheckPrev(s) = "ok"
           THEN Goto(c, "claimUpdate", arg[c]) /\ UNCHANGED <<response, granted>>
           ELSE Return(c) /\ response' = <<claimCheckPrev(s)>>
                /\ UNCHANGED granted
        /\ UNCHANGED store

\* claimStage: the stage.update
ClaimUpdate ==
    \E c \in Agents :
        /\ At(c, "claimUpdate")
        /\ claimWrite(arg[c].stage, c)
        /\ Return(c)
        /\ UNCHANGED <<pstatus, currentStage, attributions>>

\* batch-claim: the request is parsed
BatchBegin ==
    \E c \in Agents, ids \in ConcBatchInputs :
        /\ Begin(c)
        /\ Goto(c, "batchFind", [NoArgs EXCEPT !.ids = ids])
        /\ UNCHANGED <<store, response, granted>>

\* after one loop iteration of the batch: next id, or the response is sent
BatchContinue(c, r) ==
    LET results == Append(arg[c].results, r) IN
    IF Tail(arg[c].ids) = <<>>
    THEN Return(c) /\ response' = results
    ELSE Goto(c, "batchFind", [arg[c] EXCEPT !.ids = Tail(@), !.results = results])
         /\ UNCHANGED response

\* batch-claim: stage.findUnique (with its pipeline) and the checks after it
BatchFind ==
    \E c \in Agents :
        /\ At(c, "batchFind")
        /\ LET r == batchCheck(stages, pstatus, Head(arg[c].ids)) IN
           IF r = "ok"
           THEN Goto(c, "batchUpdate", arg[c]) /\ UNCHANGED response
           ELSE BatchContinue(c, r)
        /\ UNCHANGED <<store, granted>>

\* batch-claim: the stage.update of one iteration
BatchUpdate ==
    \E c \in Agents :
        /\ At(c, "batchUpdate")
        /\ stages' = batchWrite(stages, Head(arg[c].ids), c)
        /\ granted' = [granted EXCEPT ![Head(arg[c].ids)] = @ \cup {c}]
        /\ BatchContinue(c, "ok")
        /\ UNCHANGED <<pstatus, currentStage, attributions>>

\* completeStage: the stage.update, which returns the row with its agentId
CompleteUpdateStage ==
    \E c \in Agents, s \in ConcStages :
        /\ Begin(c)
        /\ completeStageRow(s)
        /\ Goto(c, IF stages'[s].agentId # NULL THEN "completeAttribution" ELSE "completePipeline",
                [NoArgs EXCEPT !.stage = s, !.agentId = stages'[s].agentId])
        /\ UNCHANGED <<pstatus, currentStage, attributions, response, granted>>

\* completeStage: recordAttribution
CompleteAttribution ==
    \E c \in Agents :
        /\ At(c, "completeAttribution")
        /\ completeAttribution(arg[c].stage, arg[c].agentId)
        /\ Goto(c, "completePipeline", arg[c])
        /\ UNCHANGED <<pstatus, currentStage, stages, response, granted>>

\* completeStage: the pipeline.update
CompletePipeline ==
    \E c \in Agents :
        /\ At(c, "completePipeline")
        /\ advancePipeline(arg[c].stage)
        /\ Return(c)
        /\ response' = <<>>
        /\ UNCHANGED <<stages, attributions, granted>>

\* failStage: the stage.update
FailUpdateStage ==
    \E c \in Agents, s \in ConcStages, e \in Messages :
        /\ Begin(c)
        /\ failStageRow(s, e)
        /\ Goto(c, "failPipeline", [NoArgs EXCEPT !.stage = s])
        /\ UNCHANGED <<pstatus, currentStage, attributions, response, granted>>

\* failStage: the pipeline.update
FailPipeline ==
    \E c \in Agents :
        /\ At(c, "failPipeline")
        /\ failPipeline
        /\ Return(c)
        /\ response' = <<>>
        /\ UNCHANGED <<stages, attributions, granted>>

\* skipStage: the stage.update
SkipUpdateStage ==
    \E c \in Agents, s \in ConcStages :
        /\ Begin(c)
        /\ skipStageRow(s)
        /\ Goto(c, "skipPipeline", [NoArgs EXCEPT !.stage = s])
        /\ UNCHANGED <<pstatus, currentStage, attributions, response, granted>>

\* skipStage: the pipeline.update
SkipPipeline ==
    \E c \in Agents :
        /\ At(c, "skipPipeline")
        /\ advancePipeline(arg[c].stage)
        /\ Return(c)
        /\ response' = <<>>
        /\ UNCHANGED <<stages, attributions, granted>>

NextConc ==
    \/ CStartPipeline
    \/ CStartStage
    \/ ClaimFindPipeline
    \/ ClaimFindStage
    \/ ClaimFindPrev
    \/ ClaimUpdate
    \/ BatchBegin
    \/ BatchFind
    \/ BatchUpdate
    \/ CompleteUpdateStage
    \/ CompleteAttribution
    \/ CompletePipeline
    \/ FailUpdateStage
    \/ FailPipeline
    \/ SkipUpdateStage
    \/ SkipPipeline

SpecConc == Init /\ [][NextConc]_vars

-----------------------------------------------------------------------------
(* SpecCreate: the store starts without the pipeline; createPipeline or    *)
(* POST /api/pipelines makes it, and the handlers of Spec follow           *)

\* topics a caller passes: the empty string and a non-empty one
Topics == {"", "AI agents"}

\* the store before the pipeline is created
NoPipeline ==
    /\ pstatus = NULL
    /\ currentStage = NULL
    /\ stages = [n \in {} |-> NULL]

InitCreate ==
    /\ NoPipeline
    /\ attributions = EmptyBag
    /\ response = <<>>
    /\ granted = [n \in StageNames |-> {}]
    /\ ops = 0
    /\ pc = [a \in Agents |-> "idle"]
    /\ arg = [a \in Agents |-> NoArgs]
    /\ run = NoRun
    /\ calc = NoCalc
    /\ rate = NoRate
    /\ stamps = NoStamps

\* a call of createPipeline(topic): prisma.pipeline.create with the nested
\* stage rows, whatever the topic is
createPipelineCall(topic) ==
    /\ pstatus' = "DRAFT"
    /\ currentStage' = "RESEARCH"
    /\ stages' = [n \in StageNames |->
                     [status |-> "PENDING", agentId |-> NULL, error |-> NULL]]
    /\ createPipeline'
    /\ response' = <<"ok">>
    /\ UNCHANGED <<attributions, granted>>

\* the !topic test of the route; NULL is a body without topic
topicMissing(topic) == topic = NULL \/ topic = ""

\* POST /api/pipelines with a body that names no template
postPipelines(topic) ==
    IF topicMissing(topic)
    THEN response' = <<"Topic is required">> /\ UNCHANGED <<store, granted>>
    ELSE createPipelineCall(topic)

DoCreatePipeline == Step /\ NoPipeline /\ \E topic \in Topics : createPipelineCall(topic)
DoPostPipelines == Step /\ NoPipeline /\ \E topic \in Topics \cup {NULL} : postPipelines(topic)

NextCreate ==
    \/ DoCreatePipeline
    \/ DoPostPipelines
    \/ ~NoPipeline /\ Next

SpecCreate == InitCreate /\ [][NextCreate]_vars

-----------------------------------------------------------------------------
(* SpecExec: the handlers of Spec and the execute route, sequential callers *)

DoExecute ==
    Step /\ \E id \in StageIds, a \in Agents \cup {NULL}, o \in HandlerOutcomes :
                execute(id, a, o)

NextExec ==
    \/ Next
    \/ DoExecute

SpecExec == Init /\ [][NextExec]_vars

-----------------------------------------------------------------------------
(* lib/stages/script.ts and lib/stages/visual.ts: execute of the SCRIPT    *)
(* and VISUAL handlers, one step per await                                 *)

\* what the external service does with a request: a usable answer, an error
\* status (or a rejected fetch), a body that cannot be parsed, or an answer
\* that parses and holds no result (no choices; no videos or no video file)
ServiceOutcomes == {"ok", "errorStatus", "malformed", "noResult"}

\* context.input of a SCRIPT call: a research output, a research object
\* without its facts array, or no input and no previousOutput at all
ScriptInputs == {"research", "noFacts", "undefined"}

\* context.input of a VISUAL call: a script with its body, or no input
VisualInputs == {"script", "undefined"}

\* the style values the VISUAL handler tells apart
VisualStyles == {"stock", "generated"}

\* the catch of the outer try written as a rethrow
executeCatchRethrow(r) ==
    [r EXCEPT !.pc = "raised"]

\* catch (error) of the outer try: return { success: false, output: null, error }
executeCatch(r) ==
    [r EXCEPT !.pc = "done", !.result = [success |-> FALSE, model |-> NULL]]

\* generateRuleBasedScript and the return that follows it; facts.length on a
\* research object without facts raises into the outer catch
generateRuleBasedScript(r) ==
    LET used == [r EXCEPT !.generator = "rule-based"] IN
    IF r.input = "noFacts"
    THEN executeCatch(used)
    ELSE [used EXCEPT !.pc = "done", !.result = [success |-> TRUE, model |-> "rule-based"]]

\* callLLMForScript and the two parses after it: the content, or a throw
callLLMForScript(outcome) ==
    IF outcome = "ok" THEN "content" ELSE "throw"

\* scriptStage.execute up to its await, or to its return when no call is made
scriptBegin(input, apiKey, dryRun) ==
    LET r == [NoRun EXCEPT !.handler = "scriptStage", !.input = input,
                           !.apiKey = apiKey, !.dryRun = dryRun] IN
    IF input = "undefined" THEN executeCatch(r)
    ELSE IF apiKey /\ ~dryRun
         THEN IF input = "noFacts"
              THEN generateRuleBasedScript(r)
              ELSE [r EXCEPT !.pc = "awaitLLM", !.calls = @ + 1]
    ELSE generateRuleBasedScript(r)

\* scriptStage.execute from the await on
scriptResume(r, outcome) ==
    LET called == [r EXCEPT !.outcomes = Append(@, outcome)] IN
    IF callLLMForScript(outcome) = "throw"
    THEN generateRuleBasedScript(called)
    ELSE [called EXCEPT !.pc = "done", !.generator = "gpt-4o-mini",
                        !.result = [success |-> TRUE, model |-> "gpt-4o-mini"]]

\* searchPexelsVideo: a video, null, or a throw
searchPexelsVideo(outcome) ==
    CASE outcome = "ok"          -> "video"
      [] outcome = "noResult"    -> "null"
      [] outcome = "errorStatus" -> "throw"
      [] outcome = "malformed"   -> "throw"

\* visualStage.execute up to the first iteration of its loop
visualBegin(input, style, sections, apiKey, dryRun) ==
    LET r == [NoRun EXCEPT !.handler = "visualStage", !.input = input,
                           !.style = style, !.sections = sections,
                           !.apiKey = apiKey, !.dryRun = dryRun] IN
    IF input = "undefined" THEN executeCatch(r)
    ELSE [r EXCEPT !.pc = "section"]

\* one iteration of the loop over script.body; "none" is an iteration that
\* pushes no clip
visualSection(r, outcome) ==
    IF r.apiKey /\ r.style # "generated" /\ ~r.dryRun
    THEN LET video == searchPexelsVideo(outcome) IN
         [r EXCEPT !.calls = @ + 1,
                   !.outcomes = Append(@, outcome),
                   !.clips = Append(@, CASE video = "video" -> "pexels"
                                         [] video = "null"  -> "none"
                                         [] video = "throw" -> "placeholder")]
    ELSE [r EXCEPT !.outcomes = Append(@, NULL),
                   !.clips = Append(@, "placeholder")]

\* the return after the loop
visualReturn(r) ==
    [r EXCEPT !.pc = "done", !.generator = "visual",
              !.result = [success |-> TRUE, model |-> NULL]]

HandlerFrame == UNCHANGED <<store, response, granted, ops, pc, arg, calc, rate, stamps>>

ScriptBegin ==
    /\ run.pc \in {"idle", "done"}
    /\ \E input \in ScriptInputs, apiKey \in BOOLEAN, dryRun \in BOOLEAN :
          run' = scriptBegin(input, apiKey, dryRun)
    /\ HandlerFrame

ScriptResume ==
    /\ run.pc = "awaitLLM"
    /\ \E outcome \in ServiceOutcomes : run' = scriptResume(run, outcome)
    /\ HandlerFrame

VisualBegin ==
    /\ run.pc \in {"idle", "done"}
    /\ \E input \in VisualInputs, style \in VisualStyles, sections \in 0..MaxSections,
          apiKey \in BOOLEAN, dryRun \in BOOLEAN :
          run' = visualBegin(input, style, sections, apiKey, dryRun)
    /\ HandlerFrame

VisualSection ==
    /\ run.pc = "section"
    /\ Len(run.clips) < run.sections
    /\ \E outcome \in ServiceOutcomes : run' = visualSection(run, outcome)
    /\ HandlerFrame

VisualReturn ==
    /\ run.pc = "section"
    /\ Len(run.clips) = run.sections
    /\ run' = visualReturn(run)
    /\ HandlerFrame

NextHandlers ==
    \/ ScriptBegin
    \/ ScriptResume
    \/ VisualBegin
    \/ VisualSection
    \/ VisualReturn

SpecHandlers == Init /\ [][NextHandlers]_vars

-----------------------------------------------------------------------------
(* Number arithmetic: binary floating point, every operation rounded to   *)
(* the nearest value of MantissaBits significant bits, ties to even (the   *)
(* rule of the 53-bit Number of the program).  A Number is m * 2^e with m  *)
(* odd, or zero.                                                           *)

RECURSIVE Pow2(_)
Pow2(n) == IF n = 0 THEN 1 ELSE 2 * Pow2(n - 1)

Zero == [m |-> 0, e |-> 0]

\* m * 2^e with the factors of two moved from m to e
RECURSIVE canon(_, _)
canon(m, e) ==
    IF m = 0 THEN Zero
    ELSE IF m % 2 = 0 THEN canon(m \div 2, e + 1)
    ELSE [m |-> m, e |-> e]

\* the Number nearest to (n / d) * 2^e, for n >= 0 and d > 0
RECURSIVE round(_, _, _)
round(n, d, e) ==
    IF n = 0 THEN Zero
    ELSE IF n >= d * Pow2(MantissaBits) THEN round(n, 2 * d, e + 1)
    ELSE IF n < d * Pow2(MantissaBits - 1) THEN round(2 * n, d, e - 1)
    ELSE LET q == n \div d
             r == n % d
         IN IF 2 * r > d \/ (2 * r = d /\ q % 2 = 1)
            THEN canon(q + 1, e)
            ELSE canon(q, e)

\* an integer literal or integer-valued input as a Number
num(n) == round(n, 1, 0)

\* x + y
plus(x, y) ==
    LET e == IF x.e < y.e THEN x.e ELSE y.e IN
    round(x.m * Pow2(x.e - e) + y.m * Pow2(y.e - e), 1, e)

\* x * y
times(x, y) == round(x.m * y.m, 1, x.e + y.e)

\* x / y, y not zero
over(x, y) == round(x.m, y.m, x.e - y.e)

-----------------------------------------------------------------------------
(* SpecPure: the pure functions of manager.ts applied to drawn inputs *)

\* a stage name that is not in STAGE_ORDER
INVALID == "INVALID"

\* the percentage column of an Attribution row: a stage weight
Percentages == {STAGE_WEIGHTS[n] : n \in StageNames}

\* the totalAmount values drawn
Totals == {1, 3, 1000}

\* the attribution lists drawn: every list of at most MaxAttrs rows
AttributionRows == [agentId : Agents, percentage : Percentages]
AttributionLists == UNION {[1..n -> AttributionRows] : n \in 0..MaxAttrs}

\* payouts.get(attr.agentId) || 0
payoutOf(payouts, agentId) ==
    IF agentId \in DOMAIN payouts THEN payouts[agentId] ELSE Zero

\* the body of the for loop: payouts.set(attr.agentId, current + amount)
payoutsSet(payouts, attr, totalAmount) ==
    LET current == payoutOf(payouts, attr.agentId)
        amount == times(over(num(attr.percentage), num(100)), num(totalAmount))
    IN [a \in DOMAIN payouts \cup {attr.agentId} |->
           IF a = attr.agentId THEN plus(current, amount) ELSE payouts[a]]

\* the for loop from row i on
RECURSIVE payoutsLoop(_, _, _, _)
payoutsLoop(attrs, i, totalAmount, payouts) ==
    IF i > Len(attrs) THEN payouts
    ELSE payoutsLoop(attrs, i + 1, totalAmount, payoutsSet(payouts, attrs[i], totalAmount))

\* the Map returned, as a function on the agents it holds
calculatePayouts(attrs, totalAmount) ==
    payoutsLoop(attrs, 1, totalAmount, [a \in {} |-> Zero])

InitPure ==
    /\ Init

PureFrame == UNCHANGED <<store, response, granted, ops, pc, arg, run, rate, stamps>>

\* the three ordering helpers and their compositions on one name
ApplyOrderingHelpers ==
    /\ calc = NoCalc
    /\ \E name \in StageNames \cup {INVALID} :
          LET next == getNextStageName(name)
              previous == getPreviousStageName(name)
          IN calc' = [op |-> "ordering", name |-> name,
                      next |-> next, previous |-> previous,
                      index |-> getStageIndex(name),
                      nextOfPrevious |-> IF previous = NULL THEN NULL
                                         ELSE getNextStageName(previous),
                      previousOfNext |-> IF next = NULL THEN NULL
                                         ELSE getPreviousStageName(next)]
    /\ PureFrame

ApplyCalculatePayouts ==
    /\ calc = NoCalc
    /\ \E attrs \in AttributionLists, totalAmount \in Totals :
          calc' = [op |-> "calculatePayouts", attrs |-> attrs,
                   totalAmount |-> totalAmount,
                   payouts |-> calculatePayouts(attrs, totalAmount)]
    /\ PureFrame

\* GET /api/agents/:id: the rows attribution.findMany returns for the agent,
\* each with its reward flag and the status of its pipeline
ProfileRows ==
    [percentage : Percentages, claimed : BOOLEAN, pipeline : [status : PipelineStatuses]]

ProfileLists == UNION {[1..n -> ProfileRows] : n \in 0..MaxProfileRows}

\* rows.filter(a => a.pipeline.status === 'COMPLETE')
\*     .reduce((sum, a) => sum + (a.percentage || 0), 0), up to row n
RECURSIVE pendingRewardsUpTo(_, _)
pendingRewardsUpTo(rows, n) ==
    IF n = 0 THEN 0
    ELSE pendingRewardsUpTo(rows, n - 1)
         + (IF rows[n].pipeline.status = "COMPLETE" THEN rows[n].percentage ELSE 0)

pendingRewards(rows) == pendingRewardsUpTo(rows, Len(rows))

ApplyPendingRewards ==
    /\ calc = NoCalc
    /\ \E rows \in ProfileLists :
          calc' = [op |-> "pendingRewards", attributions |-> rows,
                   pendingRewards |-> pendingRewards(rows)]
    /\ PureFrame

NextPure ==
    \/ ApplyOrderingHelpers
    \/ ApplyCalculatePayouts
    \/ ApplyPendingRewards

SpecPure == InitPure /\ [][NextPure]_vars

-----------------------------------------------------------------------------
(* The rate limiter (lib/rate-limit): a module-level Map from key to
   { count, resetAt } and the wall clock in milliseconds.  SpecRate calls
   checkRateLimit, clearRateLimit and clearAllRateLimits on two keys and lets
   the clock advance between calls.  Each key is used with one config, as
   the keys name the action whose RATE_LIMITS entry is passed. *)

\* agentRateLimitKey(agentId, action): `agent:${agentId}:${action}`
agentRateLimitKey(agentId, action) == <<"agent", agentId, action>>

RateKeys == {agentRateLimitKey(a, "claim") : a \in Agents}

MaxRequests == 2    \* largest maxRequests of a config

\* RateLimitConfig: windowMs and maxRequests
RateLimitConfigs == [windowMs : {1000, 1500}, maxRequests : 0..MaxRequests]

\* the milliseconds that pass between two calls
Elapses == {1, 500, 1000}

\* !entry || now >= entry.resetAt, with the strict comparison
startFreshStrictlyAfter(limits, key, now) ==
    key \notin DOMAIN limits \/ now > limits[key].resetAt

\* !entry || now >= entry.resetAt
startFresh(limits, key, now) ==
    key \notin DOMAIN limits \/ now >= limits[key].resetAt

\* limits.set(key, entry)
limitsSet(limits, key, entry) ==
    [k \in DOMAIN limits \cup {key} |-> IF k = key THEN entry ELSE limits[k]]

\* limits.delete(key)
clearRateLimit(limits, key) == [k \in DOMAIN limits \ {key} |-> limits[k]]

\* limits.clear()
clearAllRateLimits(limits) == [k \in {} |-> [count |-> 0, resetAt |-> 0]]

\* Math.ceil(ms / 1000) for ms > 0
ceilSeconds(ms) == (ms + 999) \div 1000

\* checkRateLimit: the Map after the call and the RateLimitResult returned
\* (retryAfter is a field of the denied result only)
checkRateLimit(limits, key, config, now) ==
    IF startFresh(limits, key, now)
    THEN LET resetAt == now + config.windowMs IN
         [limits |-> limitsSet(limits, key, [count |-> 1, resetAt |-> resetAt]),
          result |-> [allowed |-> TRUE, remaining |-> config.maxRequests - 1,
                      resetAt |-> resetAt]]
    ELSE IF limits[key].count < config.maxRequests
    THEN LET entry == [limits[key] EXCEPT !.count = @ + 1] IN
         [limits |-> limitsSet(limits, key, entry),
          result |-> [allowed |-> TRUE,
                      remaining |-> config.maxRequests - entry.count,
                      resetAt |-> entry.resetAt]]
    ELSE [limits |-> limits,
          result |-> [allowed |-> FALSE, remaining |-> 0,
                      resetAt |-> limits[key].resetAt,
                      retryAfter |-> ceilSeconds(limits[key].resetAt - now)]]

\* rate: op, key, before, result describe the last call (before is the Map
\* the call found); requests counts, per key, the checkRateLimit calls made
\* since the key's current window was started
InitRate ==
    /\ createPipeline
    /\ attributions = EmptyBag
    /\ response = <<>>
    /\ granted = [n \in StageNames |-> {}]
    /\ ops = 0
    /\ pc = [a \in Agents |-> "idle"]
    /\ arg = [a \in Agents |-> NoArgs]
    /\ run = NoRun
    /\ calc = NoCalc
    /\ stamps = NoStamps
    /\ rate \in {[op |-> "load", key |-> NULL, config |-> config,
                  limits |-> clearAllRateLimits(<<>>), now |-> 0, calls |-> 0,
                  requests |-> [k \in RateKeys |-> 0],
                  before |-> clearAllRateLimits(<<>>), result |-> NULL] :
                 config \in [RateKeys -> RateLimitConfigs]}

RateFrame == UNCHANGED <<store, response, granted, ops, pc, arg, run, calc, stamps>>

CheckRateLimit ==
    /\ rate.calls < MaxRateCalls
    /\ \E key \in RateKeys :
          LET call == checkRateLimit(rate.limits, key, rate.config[key], rate.now) IN
          rate' = [rate EXCEPT !.op = "checkRateLimit", !.key = key,
                               !.limits = call.limits, !.result = call.result,
                               !.before = rate.limits, !.calls = @ + 1,
                               !.requests[key] =
                                   IF startFresh(rate.limits, key, rate.now)
                                   THEN 1 ELSE @ + 1]
    /\ RateFrame

ClearRateLimit ==
    /\ rate.calls < MaxRateCalls
    /\ \E key \in RateKeys :
          rate' = [rate EXCEPT !.op = "clearRateLimit", !.key = key,
                               !.limits = clearRateLimit(rate.limits, key),
                               !.result = NULL, !.before = rate.limits,
                               !.calls = @ + 1, !.requests[key] = 0]
    /\ RateFrame

ClearAllRateLimits ==
    /\ rate.calls < MaxRateCalls
    /\ rate' = [rate EXCEPT !.op = "clearAllRateLimits", !.key = NULL,
                            !.limits = clearAllRateLimits(rate.limits),
                            !.result = NULL, !.before = rate.limits,
                            !.calls = @ + 1,
                            !.requests = [k \in RateKeys |-> 0]]
    /\ RateFrame

\* Date.now() grows between calls
Elapse ==
    /\ rate.calls < MaxRateCalls
    /\ \E ms \in Elapses :
          rate' = [rate EXCEPT !.op = "elapse", !.key = NULL, !.now = @ + ms,
                               !.result = NULL, !.before = rate.limits,
                               !.calls = @ + 1]
    /\ RateFrame

NextRate ==
    \/ CheckRateLimit
    \/ ClearRateLimit
    \/ ClearAllRateLimits
    \/ Elapse

SpecRate == InitRate /\ [][NextRate]_vars

-----------------------------------------------------------------------------
(* SpecClaim: claimStage, batch-claim and execute on every store they may find: the pipeline
   row absent, or present in any status, with stage rows absent or in any
   status, one call on each store.  stamps holds the claimedAt and startedAt
   columns of the rows. *)

MaxClaimStages == 2    \* leading stages whose rows vary in the initial store

ClaimStages == {STAGE_ORDER[i] : i \in 1..MaxClaimStages}

\* new Date()
Now == "now"

\* the rows of a pipeline whose leading stages are absent or in any status
ClaimStores ==
    {[n \in (StageNames \ ClaimStages) \cup DOMAIN rows |->
         IF n \in DOMAIN rows
         THEN [status |-> rows[n],
               agentId |-> IF rows[n] = "PENDING" THEN NULL ELSE "agent-1",
               error |-> NULL]
         ELSE [status |-> "PENDING", agentId |-> NULL, error |-> NULL]] :
     rows \in UNION {[present -> StageStatuses] : present \in SUBSET ClaimStages}}

InitClaim ==
    /\ \/ NoPipeline
       \/ /\ pstatus \in PipelineStatuses
          /\ currentStage \in ClaimStages
          /\ stages \in ClaimStores
    /\ attributions = EmptyBag
    /\ response = <<>>
    /\ granted = [n \in StageNames |-> {}]
    /\ ops = 0
    /\ pc = [a \in Agents |-> "idle"]
    /\ arg = [a \in Agents |-> NoArgs]
    /\ run = NoRun
    /\ calc = NoCalc
    /\ rate = NoRate
    /\ stamps = NoStamps

\* the timestamp columns written by the stage.update of claimStage
claimStamps(s) == [stamps EXCEPT ![s].startedAt = Now]

\* claimStage with the timestamp columns of its update
claimStageStamped(s, a) ==
    /\ claimStage(s, a)
    /\ stamps' = IF claimCheck(s) = "ok" THEN claimStamps(s) ELSE stamps

\* a call of claimStage(pipelineId, stageName, agentId, agentName)
ClaimStageCall ==
    /\ ops = 0
    /\ ops' = ops + 1
    /\ \E s \in StageNames, a \in Agents : claimStageStamped(s, a)
    /\ UNCHANGED <<pc, arg, run, calc, rate>>

\* the claimedAt written by the stage.update of each successful iteration
\* of a batch
batchStamps(ids, results) ==
    [n \in StageNames |->
        IF \E i \in 1..Len(ids) : ids[i] = n /\ results[i] = "ok"
        THEN [stamps[n] EXCEPT !.claimedAt = Now]
        ELSE stamps[n]]

\* the batch loop with the timestamp columns of its updates
batchClaimStamped(ids, a) ==
    /\ batchClaim(ids, a)
    /\ stamps' = batchStamps(ids, response')

\* a POST to the batch-claim route
BatchClaimCall ==
    /\ ops = 0
    /\ ops' = ops + 1
    /\ \E ids \in BatchInputs, a \in Agents : batchClaimStamped(ids, a)
    /\ UNCHANGED <<pc, arg, run, calc, rate>>

\* a POST to the execute route; startStage, failStage and completeStage
\* write neither claimedAt nor startedAt
ExecuteCall ==
    /\ ops = 0
    /\ ops' = ops + 1
    /\ \E id \in StageIds, a \in Agents \cup {NULL}, o \in HandlerOutcomes :
          execute(id, a, o)
    /\ UNCHANGED <<pc, arg, run, calc, rate, stamps>>

NextClaim ==
    \/ ClaimStageCall
    \/ BatchClaimCall
    \/ ExecuteCall

SpecClaim == InitClaim /\ [][NextClaim]_vars

-----------------------------------------------------------------------------
(* SpecRepeat: longer sequential runs of startPipeline, claimStage and
   completeStage on the leading stages, for what repeated calls add up to *)

MaxRepeatOps == 8      \* calls in one behaviour of SpecRepeat

RepeatFrame == UNCHANGED <<pc, arg, run, calc, rate, stamps>>

RepeatStartPipeline ==
    /\ ops < MaxRepeatOps
    /\ ops' = ops + 1
    /\ startPipeline
    /\ RepeatFrame

RepeatClaimStage ==
    /\ ops < MaxRepeatOps
    /\ ops' = ops + 1
    /\ \E s \in ClaimStages, a \in Agents : claimStage(s, a)
    /\ RepeatFrame

RepeatCompleteStage ==
    /\ ops < MaxRepeatOps
    /\ ops' = ops + 1
    /\ \E s \in ClaimStages : completeStage(s)
    /\ RepeatFrame

NextRepeat ==
    \/ RepeatStartPipeline
    \/ RepeatClaimStage
    \/ RepeatCompleteStage

SpecRepeat == Init /\ [][NextRepeat]_vars

-----------------------------------------------------------------------------
(* SpecLive: the agents' work loop on one pipeline.  The pipeline is
   started; an agent asks getAvailableStages and calls claimStage on a stage
   it returns; a stage that is CLAIMED or RUNNING is started, completed,
   skipped or failed.  Claiming and finishing are weakly fair: an available
   stage is eventually claimed, a claimed stage is eventually finished. *)

LiveFrame == UNCHANGED <<ops, pc, arg, run, calc, rate, stamps>>

\* the stages some agent holds
InProgress == {s \in StageNames : stages[s].status \in {"CLAIMED", "RUNNING"}}

LiveStartPipeline ==
    /\ pstatus = "DRAFT"
    /\ startPipeline
    /\ LiveFrame

LiveClaim ==
    /\ \E i \in DOMAIN getAvailableStages(NULL), a \in Agents :
          claimStage(getAvailableStages(NULL)[i], a)
    /\ LiveFrame

LiveStartStage ==
    /\ \E s \in InProgress : stages[s].status = "CLAIMED" /\ startStage(s)
    /\ LiveFrame

LiveCompleteStage ==
    /\ \E s \in InProgress : completeStage(s)
    /\ LiveFrame

LiveSkipStage ==
    /\ \E s \in InProgress : skipStage(s)
    /\ LiveFrame

LiveFailStage ==
    /\ \E s \in InProgress, e \in Messages : failStage(s, e)
    /\ LiveFrame

\* a claimed stage is completed, skipped or failed
LiveFinish ==
    \/ LiveCompleteStage
    \/ LiveSkipStage
    \/ LiveFailStage

NextLive ==
    \/ LiveStartPipeline
    \/ LiveClaim
    \/ LiveStartStage
    \/ LiveCompleteStage
    \/ LiveSkipStage
    \/ LiveFailStage

SpecLive ==
    /\ Init
    /\ [][NextLive]_vars
    /\ WF_vars(LiveClaim)
    /\ WF_vars(LiveFinish)

-----------------------------------------------------------------------------
(* Vocabulary of the properties *)

First == STAGE_ORDER[1]
Last == STAGE_ORDER[Len(STAGE_ORDER)]
Position(s) == CHOOSE i \in 1..Len(STAGE_ORDER) : STAGE_ORDER[i] = s
Predecessor(s) == STAGE_ORDER[Position(s) - 1]
Successor(s) == STAGE_ORDER[Position(s) + 1]
Finished == {"COMPLETE", "SKIPPED"}
PredecessorFinished(s) == s = First \/ stages[Predecessor(s)].status \in Finished

\* number of Attribution rows of stage s
AttributionCount(s) ==
    LET rows == {r \in BagToSet(attributions) : r.stageName = s} IN
    BagCardinality([r \in rows |-> attributions[r]])

-----------------------------------------------------------------------------
(* Properties *)

\* C1: a stage is returned as CLAIMED to at most one caller: no two claim
\* calls (claimStage or batch-claim) by different agents both succeed on the
\* same stage, however their reads and writes interleave.
C1_OneWinner == \A s \in StageNames : Cardinality(granted[s]) <= 1

\* C2: whenever a stage enters CLAIMED, by claimStage or by the batch-claim
\* route, it is the first stage or its immediate predecessor is COMPLETE or
\* SKIPPED at that moment.
C2_ClaimedOnlyAfterPredecessor ==
    [][\A s \in StageNames :
          (stages[s].status # "CLAIMED" /\ stages'[s].status = "CLAIMED")
              => PredecessorFinished(s)]_vars

\* C3: in a RUNNING pipeline, claimStage on a PENDING stage throws 'Previous
\* stage not complete' and writes nothing when the stage is not the first and
\* its predecessor is neither COMPLETE nor SKIPPED; otherwise it succeeds and
\* the stage is CLAIMED by the caller.
C3_ClaimFollowsPredecessor ==
    [][\A s \in StageNames, a \in Agents :
          (pstatus = "RUNNING" /\ stages[s].status = "PENDING" /\ claimStage(s, a))
              => IF PredecessorFinished(s)
                 THEN /\ response' = <<"ok">>
                      /\ stages'[s].status = "CLAIMED"
                      /\ stages'[s].agentId = a
                 ELSE /\ response' = <<"Previous stage not complete">>
                      /\ stages' = stages]_vars

\* C3 witness: SCRIPT was claimed in a RUNNING pipeline after RESEARCH was skipped
C3_Witness ==
    /\ pstatus = "RUNNING"
    /\ stages["RESEARCH"].status = "SKIPPED"
    /\ stages["SCRIPT"].status = "CLAIMED"
    /\ response = <<"ok">>

\* C4: a stage never has more than one Attribution row, every row carries the
\* stage's fixed weight, a COMPLETE stage with an agent has its row, and a
\* stage without an agent has none (consequences of: exactly one row per
\* stage completed with an agent, none otherwise, no second row on a
\* repeated completeStage).
C4_OneAttributionPerStage ==
    /\ \A s \in StageNames :
          /\ AttributionCount(s) <= 1
          /\ (stages[s].status = "COMPLETE" /\ stages[s].agentId # NULL) => AttributionCount(s) = 1
          /\ stages[s].agentId = NULL => AttributionCount(s) = 0
    /\ \A r \in BagToSet(attributions) : r.percentage = STAGE_WEIGHTS[r.stageName]

\* C5: once a stage is COMPLETE or FAILED, no operation changes its status.
C5_StageTerminal ==
    [][\A s \in StageNames :
          stages[s].status \in {"COMPLETE", "FAILED"}
              => stages'[s].status = stages[s].status]_vars

\* C6: once the pipeline is COMPLETE or FAILED, no operation changes its status.
C6_PipelineTerminal ==
    [][(pstatus \in {"COMPLETE", "FAILED"}) => (pstatus' = pstatus)]_vars

\* C7: while the pipeline is DRAFT or RUNNING, currentStage names a stage that
\* is neither COMPLETE nor SKIPPED.
C7_CurrentStageUnfinished ==
    pstatus \in {"DRAFT", "RUNNING"}
        => (currentStage \in StageNames /\ stages[currentStage].status \notin Finished)

\* C8: completeStage on the last stage sets the pipeline COMPLETE and leaves
\* currentStage as it was; completeStage on any other stage sets currentStage
\* to the immediate successor and leaves the pipeline status as it was (a
\* RUNNING pipeline stays RUNNING).
C8_CompleteAdvances ==
    [][\A s \in StageNames :
          completeStage(s)
              => IF s = Last
                 THEN pstatus' = "COMPLETE" /\ currentStage' = currentStage
                 ELSE currentStage' = Successor(s) /\ pstatus' = pstatus]_vars

\* C8 witness: RESEARCH was completed in a RUNNING pipeline (pointer on SCRIPT,
\* still RUNNING), then PUBLISH was completed (pipeline COMPLETE, pointer kept)
C8_Witness ==
    /\ stages["RESEARCH"].status = "COMPLETE"
    /\ stages["PUBLISH"].status = "COMPLETE"
    /\ pstatus = "COMPLETE"
    /\ currentStage = "SCRIPT"
    /\ ops = 3

\* C9: the step that makes a stage COMPLETE, SKIPPED or FAILED also applies
\* that operation's pipeline write (and, for a COMPLETE stage with an agent,
\* its Attribution write): no state lies between the writes.
C9_DualWriteAtomic ==
    [][\A s \in StageNames :
          (stages'[s].status # stages[s].status
              /\ stages'[s].status \in {"COMPLETE", "SKIPPED", "FAILED"})
          => /\ stages'[s].status = "FAILED" => pstatus' = "FAILED"
             /\ (stages'[s].status \in Finished /\ s = Last) => pstatus' = "COMPLETE"
             /\ (stages'[s].status \in Finished /\ s # Last) => currentStage' = Successor(s)
             /\ (stages'[s].status = "COMPLETE" /\ stages'[s].agentId # NULL)
                    => attributions' # attributions]_vars

\* C10: failStage(stage, message) leaves the stage FAILED with error = message
\* and the pipeline FAILED, whichever stage it is and whatever the other
\* stages' statuses are.
C10_FailFlipsPipeline ==
    [][\A s \in StageNames, e \in Messages :
          failStage(s, e)
              => /\ stages'[s].status = "FAILED"
                 /\ stages'[s].error = e
                 /\ pstatus' = "FAILED"]_vars

\* C10 witness: SCRIPT was failed after RESEARCH was completed
C10_Witness ==
    /\ stages["RESEARCH"].status = "COMPLETE"
    /\ stages["SCRIPT"].status = "FAILED"
    /\ stages["SCRIPT"].error \in Messages
    /\ pstatus = "FAILED"
    /\ ops = 3

\* the set of stage names in a list returned by getAvailableStages
Returned(list) == {list[i] : i \in 1..Len(list)}

\* C11: while some stage of the pipeline is FAILED, no step moves a stage of
\* the pipeline to CLAIMED and getAvailableStages returns no stage of it.
C11_NoClaimAfterFailure ==
    [][(\E f \in StageNames : stages[f].status = "FAILED")
          => /\ \A s \in StageNames :
                   stages'[s].status = "CLAIMED" => stages[s].status = "CLAIMED"
             /\ getAvailableStages(NULL) = <<>>]_vars

\* C12: skipStage sets the stage to SKIPPED and writes no Attribution row; on
\* the last stage it sets the pipeline COMPLETE and keeps currentStage, on any
\* other stage it sets currentStage to the successor and keeps the pipeline
\* status (the pointer advance of completeStage); afterwards the immediate
\* successor passes the ordering check of claimStage.
C12_SkipAdvances ==
    [][\A s \in StageNames :
          skipStage(s)
              => /\ stages'[s].status = "SKIPPED"
                 /\ attributions' = attributions
                 /\ IF s = Last
                    THEN pstatus' = "COMPLETE" /\ currentStage' = currentStage
                    ELSE /\ currentStage' = Successor(s)
                         /\ pstatus' = pstatus
                         /\ claimCheckPrev(Successor(s))' = "ok"]_vars

\* C12 witness: RESEARCH was skipped (pointer on SCRIPT), then PUBLISH was
\* skipped (pipeline COMPLETE, pointer kept), and no Attribution row exists
C12_Witness ==
    /\ stages["RESEARCH"].status = "SKIPPED"
    /\ stages["PUBLISH"].status = "SKIPPED"
    /\ pstatus = "COMPLETE"
    /\ currentStage = "SCRIPT"
    /\ attributions = EmptyBag

\* C13: in every store state, a stage is returned by getAvailableStages()
\* exactly when a claimStage call on it would pass every check of claimStage.
C13_SelectorLockStep ==
    \A s \in StageNames :
        s \in Returned(getAvailableStages(NULL)) <=> claimCheck(s) = "ok"

\* C13 witness: RESEARCH was skipped in a RUNNING pipeline; SCRIPT is the one
\* stage returned and the one stage claimStage accepts
C13_Witness ==
    /\ pstatus = "RUNNING"
    /\ stages["RESEARCH"].status = "SKIPPED"
    /\ getAvailableStages(NULL) = <<"SCRIPT">>
    /\ claimCheck("SCRIPT") = "ok"
    /\ claimCheck("VOICE") = "Previous stage not complete"

\* C14: getAvailableStages(name) returns the stage named name when it is
\* PENDING, the pipeline is RUNNING and the stage is the first or its
\* predecessor is COMPLETE or SKIPPED, and the empty list otherwise; for a
\* pipeline that is not RUNNING it returns the empty list under every filter.
C14_SelectorExact ==
    /\ \A name \in StageNames :
          getAvailableStages(name) =
              IF /\ pstatus = "RUNNING"
                 /\ stages[name].status = "PENDING"
                 /\ PredecessorFinished(name)
              THEN <<name>>
              ELSE <<>>
    /\ pstatus \in {"DRAFT", "COMPLETE", "FAILED"}
          => \A f \in StageNames \cup {NULL} : getAvailableStages(f) = <<>>

\* C14 witness: RESEARCH was completed in a RUNNING pipeline; the SCRIPT
\* filter returns SCRIPT and the VOICE filter returns nothing
C14_Witness ==
    /\ pstatus = "RUNNING"
    /\ stages["RESEARCH"].status = "COMPLETE"
    /\ getAvailableStages("SCRIPT") = <<"SCRIPT">>
    /\ getAvailableStages("VOICE") = <<>>
    /\ getAvailableStages("RESEARCH") = <<>>

\* C15: before any other operation the created pipeline is DRAFT with
\* currentStage RESEARCH and every stage PENDING with no agent; and in every
\* state the pipeline has exactly seven stage rows, one per stage name, whose
\* creation order is RESEARCH, SCRIPT, VOICE, MUSIC, VISUAL, EDITOR, PUBLISH.
C15_SevenStages ==
    /\ ops = 0 => /\ pstatus = "DRAFT"
                  /\ currentStage = "RESEARCH"
                  /\ \A n \in DOMAIN stages :
                        stages[n].status = "PENDING" /\ stages[n].agentId = NULL
    /\ Cardinality(DOMAIN stages) = 7
    /\ DOMAIN stages =
          {"RESEARCH", "SCRIPT", "VOICE", "MUSIC", "VISUAL", "EDITOR", "PUBLISH"}
    /\ stagesByCreatedAt =
          <<"RESEARCH", "SCRIPT", "VOICE", "MUSIC", "VISUAL", "EDITOR", "PUBLISH">>

\* C15 witness: after a claim, a fail and a skip the seven rows are all there
C15_Witness ==
    /\ Cardinality(DOMAIN stages) = 7
    /\ \E s, t, u \in StageNames :
          /\ stages[s].status = "CLAIMED"
          /\ stages[t].status = "FAILED"
          /\ stages[u].status = "SKIPPED"

\* C16: a createPipeline call with the empty topic reports ValidationError
\* and leaves the store without a Pipeline row and without a Stage row.
C16_EmptyTopicRejected ==
    [][createPipelineCall("")
          => response' = <<"ValidationError">> /\ NoPipeline']_vars

\* C17: startPipeline on a DRAFT pipeline leaves it RUNNING; startPipeline
\* on a RUNNING pipeline leaves it RUNNING; and in both cases currentStage and
\* every stage row are as they were before the call.
C17_StartIdempotent ==
    [][startPipeline
          => /\ pstatus \in {"DRAFT", "RUNNING"} => pstatus' = "RUNNING"
             /\ pstatus = "RUNNING" => pstatus' = pstatus
             /\ currentStage' = currentStage
             /\ stages' = stages]_vars

\* C17 witness: the pipeline was started, RESEARCH was claimed, and the
\* pipeline was started again
C17_Witness ==
    /\ pstatus = "RUNNING"
    /\ stages["RESEARCH"].status = "CLAIMED"
    /\ stages["RESEARCH"].agentId = "agent-1"
    /\ granted["RESEARCH"] = {"agent-1"}
    /\ response = <<>>
    /\ ops = 3

\* C18: a step that moves a stage to RUNNING finds it CLAIMED; and an execute
\* request that names another agent than the stage's, or a stage that is not
\* CLAIMED, is rejected and leaves the stage rows as they were.
C18_RunningOnlyFromClaimed ==
    [][/\ \A s \in StageNames :
             (stages[s].status # "RUNNING" /\ stages'[s].status = "RUNNING")
                 => stages[s].status = "CLAIMED"
       /\ \A s \in StageNames, a \in Agents, o \in HandlerOutcomes :
             ((stages[s].agentId # a \/ stages[s].status # "CLAIMED") /\ execute(s, a, o))
                 => /\ stages' = stages
                    /\ response' \in {<<"Stage not claimed by this agent">>,
                                      <<"Stage is " \o stages[s].status \o ", not CLAIMED">>}]_vars

\* C19: an execute request that passes the route's checks leaves the stage
\* COMPLETE or FAILED, for every stage name and every handler outcome; and
\* for a stage name without a registered handler the response is not the
\* TypeError of a call on the missing handler.
C19_ExecuteNeverStuck ==
    [][\A s \in StageNames, a \in Agents, o \in HandlerOutcomes :
          (executeCheck(s, a) = "ok" /\ execute(s, a, o))
              => /\ stages'[s].status \in {"COMPLETE", "FAILED"}
                 /\ getStageHandler(s) = NULL => response' # <<TypeErrorMessage>>]_vars

\* C20: a call of the SCRIPT or VISUAL handler never ends in a raise and
\* returns a result whose success is true or false, whatever the input and
\* the outcome of the external service; without an API key or with dryRun it
\* makes no external call and its output comes from the rule-based generator
\* (SCRIPT) or consists of placeholder clips (VISUAL); and when the external
\* call raises (error status, unparsable body; for SCRIPT also an answer
\* without result) the rule-based generator or a placeholder clip is used.
C20_HandlersNeverRaise ==
    /\ run.pc # "raised"
    /\ run.pc = "done" => run.result.success \in BOOLEAN
    /\ (run.handler # NULL /\ (~run.apiKey \/ run.dryRun))
          => /\ run.calls = 0
             /\ run.generator # "gpt-4o-mini"
             /\ \A i \in 1..Len(run.clips) : run.clips[i] = "placeholder"
             /\ (run.pc = "done" /\ run.result.success /\ run.handler = "scriptStage")
                    => run.result.model = "rule-based"
    /\ (run.handler = "scriptStage" /\ run.pc = "done")
          => \A i \in 1..Len(run.outcomes) :
                callLLMForScript(run.outcomes[i]) = "throw"
                    => /\ run.generator = "rule-based"
                       /\ run.result = [success |-> TRUE, model |-> "rule-based"]
    /\ run.handler = "visualStage"
          => \A i \in 1..Len(run.outcomes) :
                (run.outcomes[i] # NULL /\ searchPexelsVideo(run.outcomes[i]) = "throw")
                    => run.clips[i] = "placeholder"

\* C20 witness: a VISUAL call with an API key returned success after one
\* search that raised and one that found a video
C20_Witness ==
    /\ run.handler = "visualStage"
    /\ run.pc = "done"
    /\ run.apiKey /\ ~run.dryRun
    /\ run.result.success
    /\ run.outcomes = <<"errorStatus", "ok">>
    /\ run.clips = <<"placeholder", "pexels">>

\* C21: on every stage name but the first, next of previous is the name; on
\* every stage name but the last, previous of next is the name; previous of
\* RESEARCH and next of PUBLISH are null; on a name outside the order the
\* index is -1 and next is null.
C21_OrderingHelpers ==
    calc.op = "ordering"
        => /\ (calc.name \in StageNames /\ calc.name # "RESEARCH")
                  => calc.nextOfPrevious = calc.name
           /\ (calc.name \in StageNames /\ calc.name # "PUBLISH")
                  => calc.previousOfNext = calc.name
           /\ calc.name = "RESEARCH" => calc.previous = NULL
           /\ calc.name = "PUBLISH" => calc.next = NULL
           /\ calc.name \notin StageNames => calc.index = -1 /\ calc.next = NULL

\* C21 witness: the helpers were applied to a name outside the order
C21_Witness ==
    /\ calc.op = "ordering"
    /\ calc.name = INVALID
    /\ calc.index = -1
    /\ calc.next = NULL

\* the sum of the percentages of agent a in the first n rows of attrs
RECURSIVE SumOfPercentages(_, _, _)
SumOfPercentages(attrs, a, n) ==
    IF n = 0 THEN 0
    ELSE SumOfPercentages(attrs, a, n - 1)
         + (IF attrs[n].agentId = a THEN attrs[n].percentage ELSE 0)

\* the rows of attrs in every order
Reorderings(attrs) ==
    {[i \in 1..Len(attrs) |-> attrs[f[i]]] :
        f \in {g \in [1..Len(attrs) -> 1..Len(attrs)] :
                  \A i, j \in 1..Len(attrs) : g[i] = g[j] => i = j}}

\* C22: the mapping returned by calculatePayouts holds exactly the agents of
\* the input, gives each the value (sum of its percentages) / 100 * total, is
\* the same for every order of the input rows, and is empty for empty input.
C22_PayoutsSumFirst ==
    calc.op = "calculatePayouts"
        => /\ DOMAIN calc.payouts =
                  {calc.attrs[i].agentId : i \in 1..Len(calc.attrs)}
           /\ \A a \in DOMAIN calc.payouts :
                  calc.payouts[a] =
                      times(over(num(SumOfPercentages(calc.attrs, a, Len(calc.attrs))),
                                 num(100)),
                            num(calc.totalAmount))
           /\ \A other \in Reorderings(calc.attrs) :
                  calculatePayouts(other, calc.totalAmount) = calc.payouts
           /\ calc.attrs = <<>> => calc.payouts = <<>>

\* the last call was checkRateLimit
Checked == rate.op = "checkRateLimit"

\* C23: within one window of a key the k-th checkRateLimit is allowed with
\* remaining = maxRequests - k while k <= maxRequests, and is otherwise
\* denied with remaining 0 and a retryAfter, the key's entry left as it was.
C23_AtMostMaxRequests ==
    Checked =>
        LET k == rate.requests[rate.key]
            maxRequests == rate.config[rate.key].maxRequests
        IN /\ k <= maxRequests
                => /\ rate.result.allowed
                   /\ rate.result.remaining = maxRequests - k
           /\ k > maxRequests
                => /\ ~rate.result.allowed
                   /\ rate.result.remaining = 0
                   /\ "retryAfter" \in DOMAIN rate.result
                   /\ rate.key \in DOMAIN rate.before
                   /\ rate.limits[rate.key] = rate.before[rate.key]

\* the last call was a checkRateLimit that found no entry for its key
\* (never set, or cleared) or an entry whose window had expired
CheckedFresh ==
    /\ Checked
    /\ rate.key \in DOMAIN rate.before => rate.now >= rate.before[rate.key].resetAt

\* C24: a checkRateLimit on a key without entry or with an expired window is
\* allowed, leaves the key with count 1 in a window starting now and returns
\* remaining = maxRequests - 1; no checkRateLimit or clearRateLimit changes
\* the entry of another key.
C24_FreshWindow ==
    /\ CheckedFresh
          => /\ rate.result.allowed
             /\ rate.limits[rate.key] =
                    [count |-> 1,
                     resetAt |-> rate.now + rate.config[rate.key].windowMs]
             /\ rate.result.remaining = rate.config[rate.key].maxRequests - 1
             /\ rate.result.resetAt = rate.limits[rate.key].resetAt
    /\ rate.op \in {"checkRateLimit", "clearRateLimit"}
          => \A other \in RateKeys \ {rate.key} :
                /\ other \in DOMAIN rate.limits <=> other \in DOMAIN rate.before
                /\ other \in DOMAIN rate.limits
                      => rate.limits[other] = rate.before[other]

\* a key is checked exactly at its resetAt after its window was used up
C24_Witness ==
    /\ CheckedFresh
    /\ rate.key \in DOMAIN rate.before
    /\ rate.now = rate.before[rate.key].resetAt
    /\ rate.before[rate.key].count >= rate.config[rate.key].maxRequests
    /\ \E other \in RateKeys \ {rate.key} : other \in DOMAIN rate.limits

\* a batch claim may take the stage: the row exists, is PENDING and its
\* pipeline is neither COMPLETE nor FAILED
Claimable(id) ==
    /\ id \in DOMAIN stages
    /\ stages[id].status = "PENDING"
    /\ pstatus \notin {"COMPLETE", "FAILED"}

\* C25: a batch claim answers with one result per requested id, in request
\* order, and claimed + failed = requested; an id not named earlier in the
\* request succeeds exactly if its stage was claimable when the request
\* arrived, whatever happened to the other ids, and every id reported as
\* claimed is CLAIMED by the caller when the batch returns.
C25_BatchIndependent ==
    [][\A ids \in BatchInputs, a \in Agents :
          batchClaimStamped(ids, a)
              => /\ Len(response') = Len(ids)
                 /\ summary(ids, response').claimed + summary(ids, response').failed
                        = summary(ids, response').requested
                 /\ \A i \in 1..Len(ids) :
                        /\ (\A j \in 1..(i - 1) : ids[j] # ids[i])
                              => (response'[i] = "ok" <=> Claimable(ids[i]))
                        /\ response'[i] = "ok"
                              => /\ stages'[ids[i]].status = "CLAIMED"
                                 /\ stages'[ids[i]].agentId = a]_vars

\* a batch has answered with a failure followed by a success
C25_Witness == response = <<"Stage not found", "ok">>

\* C26: a batch claim writes CLAIMED only over a stage row that is PENDING
\* at that moment and whose pipeline is neither COMPLETE nor FAILED; every
\* other id is reported as failed and its row is left unchanged.
C26_BatchClaimsOnlyClaimable ==
    [][\A c \in Agents :
          pc[c] = "batchUpdate" /\ pc'[c] # "batchUpdate"
              => Claimable(Head(arg[c].ids))]_vars

\* the percentages of the first n rows that are unclaimed and belong to a
\* COMPLETE pipeline, added up
RECURSIVE UnclaimedCompleteUpTo(_, _)
UnclaimedCompleteUpTo(rows, n) ==
    IF n = 0 THEN 0
    ELSE UnclaimedCompleteUpTo(rows, n - 1)
         + (IF ~rows[n].claimed /\ rows[n].pipeline.status = "COMPLETE"
            THEN rows[n].percentage ELSE 0)

\* C27: pendingRewards of the agent profile is the sum of the percentages of
\* the agent's attributions that are unclaimed and belong to a COMPLETE
\* pipeline; claimed rows and rows of other pipelines contribute nothing.
C27_PendingRewardsUnclaimedComplete ==
    calc.op = "pendingRewards"
        => calc.pendingRewards =
               UnclaimedCompleteUpTo(calc.attributions, Len(calc.attributions))

\* the clips array of the VISUAL handler: the iterations that pushed a clip
ClipsPushed == {i \in 1..Len(run.clips) : run.clips[i] # "none"}

\* C28: a VISUAL call that returns its output has pushed exactly one clip
\* per script section: a stock clip where the search found a video, a
\* placeholder clip where the search failed, found nothing or was not made.
C28_OneClipPerSection ==
    (run.handler = "visualStage" /\ run.pc = "done" /\ run.result.success)
        => /\ Cardinality(ClipsPushed) = run.sections
           /\ \A i \in 1..Len(run.clips) :
                 run.clips[i] = IF run.outcomes[i] = "ok" THEN "pexels"
                                ELSE "placeholder"

\* the error kind a claimStage error stands for
ErrorKind(message) ==
    CASE message = "Pipeline not in running state"    -> "InvalidState"
      [] message = "Stage not found"                  -> "NotFound"
      [] message = "Stage not available for claiming" -> "Conflict"
      [] message = "Previous stage not complete"      -> "OrderingViolation"
      [] OTHER                                        -> "none"

\* the first precondition of claimStage that fails for stage s, in the
\* order pipeline, stage row, stage status, predecessor
FirstViolation(s) ==
    IF pstatus # "RUNNING" THEN "InvalidState"
    ELSE IF s \notin DOMAIN stages THEN "NotFound"
    ELSE IF stages[s].status # "PENDING" THEN "Conflict"
    ELSE IF /\ s # First
            /\ \/ Predecessor(s) \notin DOMAIN stages
               \/ stages[Predecessor(s)].status \notin {"COMPLETE", "SKIPPED"}
         THEN "OrderingViolation"
    ELSE "none"

\* C29: a claimStage call reports the first precondition that fails, in the
\* order pipeline (InvalidState), stage row (NotFound), stage status
\* (Conflict), predecessor (OrderingViolation), and a call that fails leaves
\* the stage rows, their timestamps and the pipeline row unchanged.
C29_FirstViolationReported ==
    [][\A s \in StageNames, a \in Agents :
          claimStageStamped(s, a)
              => /\ ErrorKind(response'[1]) = FirstViolation(s)
                 /\ FirstViolation(s) # "none"
                       => /\ stages' = stages
                          /\ stamps' = stamps
                          /\ pstatus' = pstatus
                          /\ currentStage' = currentStage]_vars

\* a claimStage on a RUNNING pipeline found no row for its stage
C29_Witness ==
    /\ response = <<"Stage not found">>
    /\ pstatus = "RUNNING"
    /\ ops > 0

\* C30: a successful claimStage sets the claimed stage to CLAIMED with the
\* caller's agentId and stamps its claimedAt and its startedAt; the pipeline
\* row and every other stage row, timestamps included, stay as they were.
C30_ClaimTouchesOneStage ==
    [][\A s \in StageNames, a \in Agents :
          claimStageStamped(s, a) /\ response' = <<"ok">>
              => /\ stages'[s].status = "CLAIMED"
                 /\ stages'[s].agentId = a
                 /\ stamps'[s].claimedAt # NULL
                 /\ stamps'[s].startedAt # NULL
                 /\ pstatus' = pstatus
                 /\ currentStage' = currentStage
                 /\ \A other \in DOMAIN stages \ {s} :
                       /\ stages'[other] = stages[other]
                       /\ stamps'[other] = stamps[other]]_vars

Earlier(s) == {STAGE_ORDER[i] : i \in 1..(Position(s) - 1)}

\* C32: a stage that is CLAIMED, RUNNING or COMPLETE has every earlier stage
\* COMPLETE or SKIPPED, and at most one stage is CLAIMED or RUNNING.
C32_OrderTransitive ==
    /\ \A s \in StageNames :
          stages[s].status \in {"CLAIMED", "RUNNING", "COMPLETE"}
              => \A t \in Earlier(s) : stages[t].status \in Finished
    /\ Cardinality({s \in StageNames :
                       stages[s].status \in {"CLAIMED", "RUNNING"}}) <= 1

\* C33: every change of currentStage moves it to a later stage name.
C33_PointerForward ==
    [][currentStage' # currentStage
          => Position(currentStage') > Position(currentStage)]_vars

\* the percentages of the pipeline's Attribution rows, added up
RECURSIVE SumOfBag(_, _)
SumOfBag(bag, rows) ==
    IF rows = {} THEN 0
    ELSE LET r == CHOOSE x \in rows : TRUE IN
         bag[r] * r.percentage + SumOfBag(bag, rows \ {r})

AttributedTotal == SumOfBag(attributions, BagToSet(attributions))

\* C34: the percentages of the pipeline's Attribution rows sum to at most
\* 100, and to exactly 100 when the pipeline is COMPLETE and every stage is
\* COMPLETE with an agent.
C34_AtMostHundred ==
    /\ AttributedTotal <= 100
    /\ (/\ pstatus = "COMPLETE"
        /\ \A s \in StageNames :
              stages[s].status = "COMPLETE" /\ stages[s].agentId # NULL)
          => AttributedTotal = 100

\* C35: a stage's agentId, once set, is never overwritten by another agent,
\* and every Attribution row written names an agent whose claim of that
\* stage returned success.
C35_CreditGoesToClaimer ==
    [][/\ \A s \in StageNames :
             stages[s].agentId # NULL => stages'[s].agentId = stages[s].agentId
       /\ \A r \in BagToSet(attributions') :
             (r \notin BagToSet(attributions) \/ attributions'[r] > attributions[r])
                 => r.agentId \in granted'[r.stageName]]_vars

\* C36: a COMPLETE pipeline has all seven stages COMPLETE or SKIPPED.
C36_CompleteMeansAllFinished ==
    pstatus = "COMPLETE" => \A s \in StageNames : stages[s].status \in Finished

\* C38: while the pipeline is RUNNING, some stage is CLAIMED or RUNNING or is
\* returned by getAvailableStages; no stage is FAILED and not all stages
\* are finished.
C38_RunningNeverStuck ==
    pstatus = "RUNNING"
        => /\ \/ \E s \in StageNames : stages[s].status \in {"CLAIMED", "RUNNING"}
              \/ getAvailableStages(NULL) # <<>>
           /\ \A s \in StageNames : stages[s].status # "FAILED"
           /\ \E s \in StageNames : stages[s].status \notin Finished

\* C39: while the pipeline is DRAFT, every stage is PENDING with no agent.
C39_DraftUntouched ==
    pstatus = "DRAFT"
        => \A s \in StageNames :
              stages[s].status = "PENDING" /\ stages[s].agentId = NULL

\* no stage has been failed, and every stage that was claimed or finished
\* has all earlier stages finished
InOrder ==
    \A s \in StageNames :
        stages[s].status # "PENDING"
            => \A t \in Earlier(s) : stages[t].status \in Finished

TypeOK ==
    /\ pstatus \in PipelineStatuses
    /\ currentStage \in StageNames
    /\ \A n \in StageNames : stages[n].status \in StageStatuses
    /\ ops \in 0..MaxOps
====
